---- MODULE Spec2Model ----
(***************************************************************************)
(* A model of the Game Boy CPU core of src/src/cpu.rs: the register file,  *)
(* the program counter and the memory bus, CPU::execute for the three      *)
(* instruction families (ADD, JP, LD) and CPU::step (fetch, decode,        *)
(* execute, commit).                                                       *)
(*                                                                         *)
(* A Rust panic is an outcome of an operation, not a state of the CPU; the *)
(* model records it in last.outcome and keeps whatever the operation had   *)
(* already written when it panicked.                                       *)
(***************************************************************************)
EXTENDS Integers, Sequences, FiniteSets, TLC

VARIABLES
    registers,        \* CPU.registers: a, b, c, d, e, h, l and the flags f
    pc,               \* CPU.pc: u16
    memory,           \* CPU.bus.memory: [u8; 0xFFFF], kept as its non-zero cells
    overflow_checks,  \* the build: TRUE when `+` on integers panics on overflow
    phase,            \* "new", "loaded", "returned" or "panicked"
    ops,              \* number of execute/step calls made so far
    last              \* what the last execute/step call was, did and returned

vars == <<registers, pc, memory, overflow_checks, phase, ops, last>>

\* ----------------------------------------------------------------- bounds

\* The number of execute/step calls a run makes after the host has loaded
\* the CPU.
MaxOps == 1

\* -------------------------------------------------------------- integers

\* u8 and u16 arithmetic of the source.
WrapU8(n) == n % 256
WrapU16(n) == n % 65536

RECURSIVE BitAnd(_, _)
BitAnd(x, y) ==
    IF x = 0 \/ y = 0 THEN 0
    ELSE (IF x % 2 = 1 /\ y % 2 = 1 THEN 1 ELSE 0) + 2 * BitAnd(x \div 2, y \div 2)

RECURSIVE BitOr(_, _)
BitOr(x, y) ==
    IF x = 0 THEN y
    ELSE IF y = 0 THEN x
    ELSE (IF x % 2 = 1 \/ y % 2 = 1 THEN 1 ELSE 0) + 2 * BitOr(x \div 2, y \div 2)

RECURSIVE Pow2(_)
Pow2(n) == IF n = 0 THEN 1 ELSE 2 * Pow2(n - 1)

\* x << n on u16.
Shl16(x, n) == WrapU16(x * Pow2(n))

\* u16::wrapping_add.
WrappingAdd(x, n) == WrapU16(x + n)

\* `x + n` on u16: panics on overflow in a build with overflow checks (debug),
\* wraps in a build without them (release).
CheckedAdd(x, n, checks) ==
    [ok |-> ~(checks /\ x + n > 65535), value |-> WrapU16(x + n)]

\* u8::overflowing_add.
OverflowingAdd(x, y) == [value |-> WrapU8(x + y), overflow |-> x + y > 255]

\* ------------------------------------------------------------- memory bus

\* The length of MemoryBus.memory.
MemSize == 65535

\* MemoryBus::default(): every cell is zero, so no cell is recorded.
ZeroMemory == [x \in {} |-> 0]

\* memory[address as usize], for an address inside the array.
Cell(mem, address) == IF address \in DOMAIN mem THEN mem[address] ELSE 0

\* memory[address as usize] = value, for an address inside the array.
SetCell(mem, address, value) ==
    IF value = 0
    THEN [x \in DOMAIN mem \ {address} |-> mem[x]]
    ELSE [x \in DOMAIN mem \cup {address} |-> IF x = address THEN value ELSE mem[x]]

\* Rust's bounds check on memory[address as usize].
InBounds(address) == address < MemSize

\* MemoryBus::read_byte: the byte, or an index-out-of-bounds panic.
ReadByte(mem, address) ==
    [ok |-> InBounds(address), value |-> Cell(mem, address)]

\* MemoryBus::write_byte: the new memory, or an index-out-of-bounds panic.
WriteByte(mem, address, value) ==
    [ok |-> InBounds(address),
     memory |-> IF InBounds(address) THEN SetCell(mem, address, value) ELSE mem]

\* ----------------------------------------------------------- register file

FlagsRegister(z, n, h, c) == [zero |-> z, subtract |-> n, half_carry |-> h, carry |-> c]

Registers(a, b, c, d, e, f, h, l) ==
    [a |-> a, b |-> b, c |-> c, d |-> d, e |-> e, f |-> f, h |-> h, l |-> l]

\* A register file that starts from the values the boot ROM leaves behind.
PostBootRegisters ==
    Registers(\H01, \H00, \H13, \H00, \HD8, FlagsRegister(TRUE, FALSE, TRUE, TRUE),
              \H01, \H4D)

\* Registers::default().
DefaultRegisters ==
    Registers(0, 0, 0, 0, 0, FlagsRegister(FALSE, FALSE, FALSE, FALSE), 0, 0)

\* Registers::get_hl: the H/L pair as one 16-bit address.
GetHl(regs) == BitOr(Shl16(regs.h, 8), regs.l)

\* x >> n.
Shr(x, n) == x \div Pow2(n)

\* The bit of the flags byte each flag is kept in.
ZERO_FLAG_BYTE_POSITION == 7
SUBTRACT_FLAG_BYTE_POSITION == 6
HALF_CARRY_FLAG_BYTE_POSITION == 5
CARRY_FLAG_BYTE_POSITION == 4

\* if flag { 1 } else { 0 } << position, on u8.
FlagBit(flag, position) == WrapU8((IF flag THEN 1 ELSE 0) * Pow2(position))

\* From<FlagsRegister> for u8 with the half-carry and carry positions
\* exchanged.
U8FromFlagsCarrySwapped(flag) ==
    BitOr(BitOr(BitOr(FlagBit(flag.zero, ZERO_FLAG_BYTE_POSITION),
                      FlagBit(flag.subtract, SUBTRACT_FLAG_BYTE_POSITION)),
                FlagBit(flag.half_carry, CARRY_FLAG_BYTE_POSITION)),
          FlagBit(flag.carry, HALF_CARRY_FLAG_BYTE_POSITION))

\* From<FlagsRegister> for u8.
U8FromFlags(flag) ==
    BitOr(BitOr(BitOr(FlagBit(flag.zero, ZERO_FLAG_BYTE_POSITION),
                      FlagBit(flag.subtract, SUBTRACT_FLAG_BYTE_POSITION)),
                FlagBit(flag.half_carry, HALF_CARRY_FLAG_BYTE_POSITION)),
          FlagBit(flag.carry, CARRY_FLAG_BYTE_POSITION))

\* From<u8> for FlagsRegister reading the carry from bit 3.
FlagsFromU8CarryBelow(byte) ==
    FlagsRegister(
        BitAnd(Shr(byte, ZERO_FLAG_BYTE_POSITION), 1) # 0,
        BitAnd(Shr(byte, SUBTRACT_FLAG_BYTE_POSITION), 1) # 0,
        BitAnd(Shr(byte, HALF_CARRY_FLAG_BYTE_POSITION), 1) # 0,
        BitAnd(Shr(byte, CARRY_FLAG_BYTE_POSITION - 1), 1) # 0)

\* From<u8> for FlagsRegister.
FlagsFromU8(byte) ==
    FlagsRegister(
        BitAnd(Shr(byte, ZERO_FLAG_BYTE_POSITION), 1) # 0,
        BitAnd(Shr(byte, SUBTRACT_FLAG_BYTE_POSITION), 1) # 0,
        BitAnd(Shr(byte, HALF_CARRY_FLAG_BYTE_POSITION), 1) # 0,
        BitAnd(Shr(byte, CARRY_FLAG_BYTE_POSITION), 1) # 0)

\* Registers::get_bc.
GetBc(regs) == BitOr(Shl16(regs.b, 8), regs.c)

\* Registers::set_bc keeping the high byte unshifted before the cast to u8.
SetBcUnshifted(regs, value) ==
    [regs EXCEPT !.b = WrapU8(BitAnd(value, 65280)),
                 !.c = WrapU8(BitAnd(value, 255))]

\* Registers::set_bc.
SetBc(regs, value) ==
    [regs EXCEPT !.b = WrapU8(Shr(BitAnd(value, 65280), 8)),
                 !.c = WrapU8(BitAnd(value, 255))]

\* ------------------------------------------------------------ instructions

ArithmeticTarget == {"A", "B", "C", "D", "E", "H", "L"}
JumpTest == {"NotZero", "Zero", "NotCarry", "Carry", "Always"}
LoadByteTarget == {"A", "B", "C", "D", "E", "H", "L", "HLI"}
LoadByteSource == {"A", "B", "C", "D", "E", "H", "L", "D8", "HLI"}

NoOperand == "-"

ADD(target) == [kind |-> "ADD", target |-> target, source |-> NoOperand, test |-> NoOperand]
JP(test) == [kind |-> "JP", target |-> NoOperand, source |-> NoOperand, test |-> test]
LD(target, source) == [kind |-> "LD", target |-> target, source |-> source, test |-> NoOperand]

\* The closed instruction variant.
Instruction ==
    {ADD(t) : t \in ArithmeticTarget}
        \cup {JP(t) : t \in JumpTest}
        \cup {LD(t, s) : t \in LoadByteTarget, s \in LoadByteSource}

\* Option<Instruction>::None.
None == [kind |-> "None", target |-> NoOperand, source |-> NoOperand, test |-> NoOperand]

\* Instruction::from_byte_prefixed: no arm but the wildcard.
FromBytePrefixed(byte) == None

\* Instruction::from_byte_not_prefixed with an arm for 0xC3, the opcode of
\* the unconditional jump.
FromByteNotPrefixedKnowingJp(byte) == IF byte = \HC3 THEN JP("Always") ELSE None

\* Instruction::from_byte_not_prefixed: no arm but the wildcard.
FromByteNotPrefixed(byte) == None

\* Instruction::from_byte.
FromByte(byte, prefixed) ==
    IF prefixed THEN FromBytePrefixed(byte) ELSE FromByteNotPrefixed(byte)

\* ------------------------------------------------------------------- CPU

\* The CPU struct: registers, pc and bus.
Cpu(regs, p, mem) == [registers |-> regs, pc |-> p, memory |-> mem]

\* CPU::default().
DefaultCpu == Cpu(DefaultRegisters, 0, ZeroMemory)

\* How a call ends: it returns, or it panics with one of three messages.
Ok == "ok"
PanicOverflow == "attempt to add with overflow"
PanicBounds == "index out of bounds"
PanicUnknown == "Unkown instruction found"

\* The field of Registers an operand selector names.
Field(selector) ==
    CASE selector = "A" -> "a"
      [] selector = "B" -> "b"
      [] selector = "C" -> "c"
      [] selector = "D" -> "d"
      [] selector = "E" -> "e"
      [] selector = "H" -> "h"
      [] selector = "L" -> "l"

\* What a call of execute, or of a helper it calls, comes to: the CPU as the
\* call left it, how the call ended, the value it returned (when it returned)
\* and the addresses it passed to read_byte.
Result(cpu, outcome, value, reads) ==
    [cpu |-> cpu, outcome |-> outcome, value |-> value, reads |-> reads]

\* CPU::add with the half-carry taken from the sum instead of from A.
AddHalfCarryOfSum(cpu, value) ==
    LET sum == OverflowingAdd(cpu.registers.a, value)
        f == FlagsRegister(
                 sum.value = 0,
                 FALSE,
                 BitAnd(sum.value, 15) + BitAnd(value, 15) > 15,
                 sum.overflow)
    IN  Result([cpu EXCEPT !.registers.f = f], Ok, sum.value, {})

\* CPU::add: the flags of A + value, and the wrapped sum.
Add(cpu, value) ==
    LET sum == OverflowingAdd(cpu.registers.a, value)
        f == FlagsRegister(
                 sum.value = 0,
                 FALSE,
                 BitAnd(cpu.registers.a, 15) + BitAnd(value, 15) > 15,
                 sum.overflow)
    IN  Result([cpu EXCEPT !.registers.f = f], Ok, sum.value, {})

\* CPU::read_next_byte: the byte at pc, and pc moved one on.
ReadNextByte(cpu) ==
    LET byte == ReadByte(cpu.memory, cpu.pc)
    IN  IF ~byte.ok
        THEN Result(cpu, PanicBounds, 0, {cpu.pc})
        ELSE Result([cpu EXCEPT !.pc = WrappingAdd(cpu.pc, 1)], Ok, byte.value, {cpu.pc})

\* CPU::jump reading its operand bytes before it looks at should_jump.
JumpReadingFirst(cpu, should_jump, checks) ==
    LET lsb_at == CheckedAdd(cpu.pc, 1, checks)
        lsb == ReadByte(cpu.memory, lsb_at.value)
        msb_at == CheckedAdd(cpu.pc, 2, checks)
        msb == ReadByte(cpu.memory, msb_at.value)
    IN  IF ~lsb_at.ok THEN Result(cpu, PanicOverflow, 0, {})
        ELSE IF ~lsb.ok THEN Result(cpu, PanicBounds, 0, {lsb_at.value})
        ELSE IF ~msb_at.ok THEN Result(cpu, PanicOverflow, 0, {lsb_at.value})
        ELSE IF ~msb.ok
             THEN Result(cpu, PanicBounds, 0, {lsb_at.value, msb_at.value})
        ELSE Result(cpu, Ok,
                    IF should_jump THEN BitOr(Shl16(msb.value, 8), lsb.value)
                    ELSE WrappingAdd(cpu.pc, 3),
                    {lsb_at.value, msb_at.value})

\* CPU::jump.
Jump(cpu, should_jump, checks) ==
    IF should_jump
    THEN LET lsb_at == CheckedAdd(cpu.pc, 1, checks)
             lsb == ReadByte(cpu.memory, lsb_at.value)
             msb_at == CheckedAdd(cpu.pc, 2, checks)
             msb == ReadByte(cpu.memory, msb_at.value)
         IN  IF ~lsb_at.ok THEN Result(cpu, PanicOverflow, 0, {})
             ELSE IF ~lsb.ok THEN Result(cpu, PanicBounds, 0, {lsb_at.value})
             ELSE IF ~msb_at.ok THEN Result(cpu, PanicOverflow, 0, {lsb_at.value})
             ELSE IF ~msb.ok
                  THEN Result(cpu, PanicBounds, 0, {lsb_at.value, msb_at.value})
             ELSE Result(cpu, Ok, BitOr(Shl16(msb.value, 8), lsb.value),
                         {lsb_at.value, msb_at.value})
    ELSE Result(cpu, Ok, WrappingAdd(cpu.pc, 3), {})

\* The JP arm's jump_condition with the Carry and NotCarry arms exchanged.
JumpConditionCarrySwapped(cpu, test) ==
    CASE test = "NotZero" -> ~cpu.registers.f.zero
      [] test = "Zero" -> cpu.registers.f.zero
      [] test = "NotCarry" -> cpu.registers.f.carry
      [] test = "Carry" -> ~cpu.registers.f.carry
      [] test = "Always" -> TRUE

\* The JP arm's jump_condition.
JumpCondition(cpu, test) ==
    CASE test = "NotZero" -> ~cpu.registers.f.zero
      [] test = "Zero" -> cpu.registers.f.zero
      [] test = "NotCarry" -> ~cpu.registers.f.carry
      [] test = "Carry" -> cpu.registers.f.carry
      [] test = "Always" -> TRUE

\* The JP arm of CPU::execute storing the target in self.pc itself.
ExecuteJpStoringPc(cpu, test, checks) ==
    LET jumped == Jump(cpu, JumpCondition(cpu, test), checks)
    IN  IF jumped.outcome = Ok
        THEN Result([cpu EXCEPT !.pc = jumped.value], Ok, jumped.value, jumped.reads)
        ELSE jumped

\* The JP arm of CPU::execute.
ExecuteJp(cpu, test, checks) == Jump(cpu, JumpCondition(cpu, test), checks)

\* The ADD arm of CPU::execute advancing self.pc itself.
ExecuteAddStoringPc(cpu, target) ==
    IF target = "C"
    THEN LET added == Add(cpu, cpu.registers.c)
         IN  Result([added.cpu EXCEPT !.registers.a = added.value,
                                      !.pc = WrappingAdd(cpu.pc, 1)], Ok,
                    WrappingAdd(cpu.pc, 1), {})
    ELSE Result(cpu, Ok, cpu.pc, {})

\* The ADD arm of CPU::execute: only target C is wired; the other six arms
\* return self.pc.
ExecuteAdd(cpu, target) ==
    IF target = "C"
    THEN LET added == Add(cpu, cpu.registers.c)
         IN  Result([added.cpu EXCEPT !.registers.a = added.value], Ok,
                    WrappingAdd(cpu.pc, 1), {})
    ELSE Result(cpu, Ok, cpu.pc, {})

\* The LD arm's source_value with the H and L arms exchanged.
SourceValueHLSwapped(cpu, source) ==
    CASE source = "D8" -> ReadNextByte(cpu)
      [] source = "HLI" ->
            LET at == GetHl(cpu.registers)
                byte == ReadByte(cpu.memory, at)
            IN  Result(cpu, IF byte.ok THEN Ok ELSE PanicBounds, byte.value, {at})
      [] source = "H" -> Result(cpu, Ok, cpu.registers.l, {})
      [] source = "L" -> Result(cpu, Ok, cpu.registers.h, {})
      [] OTHER -> Result(cpu, Ok, cpu.registers[Field(source)], {})

\* The LD arm's source_value.
SourceValue(cpu, source) ==
    CASE source = "D8" -> ReadNextByte(cpu)
      [] source = "HLI" ->
            LET at == GetHl(cpu.registers)
                byte == ReadByte(cpu.memory, at)
            IN  Result(cpu, IF byte.ok THEN Ok ELSE PanicBounds, byte.value, {at})
      [] OTHER -> Result(cpu, Ok, cpu.registers[Field(source)], {})

\* The LD arm's store into the target, with the HLI arm taken as "HL, then
\* increment": it moves L one on after the write.
StoreTargetIncrementingHl(cpu, target, value) ==
    IF target = "HLI"
    THEN LET written == WriteByte(cpu.memory, GetHl(cpu.registers), value)
         IN  IF written.ok
             THEN Result([cpu EXCEPT !.memory = written.memory,
                                     !.registers.l = WrapU8(cpu.registers.l + 1)],
                         Ok, 0, {})
             ELSE Result(cpu, PanicBounds, 0, {})
    ELSE Result([cpu EXCEPT !.registers[Field(target)] = value], Ok, 0, {})

\* The LD arm's store into the target, with the HLI arm addressing memory by
\* L alone.
StoreTargetAtL(cpu, target, value) ==
    IF target = "HLI"
    THEN LET written == WriteByte(cpu.memory, cpu.registers.l, value)
         IN  IF written.ok
             THEN Result([cpu EXCEPT !.memory = written.memory], Ok, 0, {})
             ELSE Result(cpu, PanicBounds, 0, {})
    ELSE Result([cpu EXCEPT !.registers[Field(target)] = value], Ok, 0, {})

\* The LD arm's store into the target.
StoreTarget(cpu, target, value) ==
    IF target = "HLI"
    THEN LET written == WriteByte(cpu.memory, GetHl(cpu.registers), value)
         IN  Result([cpu EXCEPT !.memory = written.memory],
                    IF written.ok THEN Ok ELSE PanicBounds, 0, {})
    ELSE Result([cpu EXCEPT !.registers[Field(target)] = value], Ok, 0, {})

\* The LD arm's returned program counter, from self.pc as the arm left it.
LoadNextPc(cpu, source) ==
    IF source = "D8" THEN WrappingAdd(cpu.pc, 2) ELSE WrappingAdd(cpu.pc, 1)

\* The LD arm of CPU::execute.
ExecuteLd(cpu, target, source) ==
    LET read == SourceValue(cpu, source)
        stored == StoreTarget(read.cpu, target, read.value)
    IN  IF read.outcome # Ok THEN Result(read.cpu, read.outcome, 0, read.reads)
        ELSE IF stored.outcome # Ok
             THEN Result(stored.cpu, stored.outcome, 0, read.reads)
        ELSE Result(stored.cpu, Ok, LoadNextPc(stored.cpu, source), read.reads)

\* CPU::execute.
Execute(cpu, instruction, checks) ==
    CASE instruction.kind = "JP" -> ExecuteJp(cpu, instruction.test, checks)
      [] instruction.kind = "ADD" -> ExecuteAdd(cpu, instruction.target)
      [] instruction.kind = "LD" ->
            ExecuteLd(cpu, instruction.target, instruction.source)

\* {:02X}: a byte as two upper-case hexadecimal digits, one character each.
HexUpper ==
    <<"0", "1", "2", "3", "4", "5", "6", "7", "8", "9", "A", "B", "C", "D", "E", "F">>

\* {:X}: a byte in upper-case hexadecimal with no padding to two digits.
FormatX(byte) ==
    IF byte < 16 THEN <<HexUpper[byte + 1]>>
    ELSE <<HexUpper[(byte \div 16) + 1], HexUpper[(byte % 16) + 1]>>

FormatX02(byte) == <<HexUpper[(byte \div 16) + 1], HexUpper[(byte % 16) + 1]>>

\* format!("0x{}{:02X}", if prefixed { "CB" } else { "" }, instruction_byte),
\* as the sequence of its characters.
Description(byte, prefixed) ==
    <<"0", "x">> \o (IF prefixed THEN <<"C", "B">> ELSE <<>>) \o FormatX02(byte)

\* The prefix marker step compares the first fetched byte with.
PrefixByte == \HCB

\* What a call of step comes to: as Result, with the byte and the prefix
\* status handed to the decoder and the text of the panic message.
StepResult(cpu, outcome, reads, byte, prefixed, decoded, description) ==
    [cpu |-> cpu, outcome |-> outcome, value |-> cpu.pc, reads |-> reads,
     byte |-> byte, prefixed |-> prefixed, decoded |-> decoded,
     description |-> description]

\* What the fetch of step comes to: the byte for the decoder and whether a
\* prefix byte came before it.
Fetched(cpu, outcome, reads, byte, prefixed) ==
    [cpu |-> cpu, outcome |-> outcome, reads |-> reads, byte |-> byte,
     prefixed |-> prefixed]

\* The fetch of CPU::step done with read_next_byte, which moves pc past
\* every byte it reads.
FetchMovingPc(cpu, checks) ==
    LET first == ReadNextByte(cpu)
        prefixed == first.value = PrefixByte
        second == ReadNextByte(first.cpu)
    IN  IF first.outcome # Ok THEN Fetched(cpu, PanicBounds, first.reads, 0, FALSE)
        ELSE IF ~prefixed THEN Fetched(first.cpu, Ok, first.reads, first.value, FALSE)
        ELSE IF second.outcome # Ok
             THEN Fetched(first.cpu, PanicBounds, first.reads \cup second.reads, 0, TRUE)
        ELSE Fetched(second.cpu, Ok, first.reads \cup second.reads, second.value, TRUE)

\* The fetch of CPU::step: the byte at pc and, after a prefix byte, the one
\* at pc + 1.
Fetch(cpu, checks) ==
    LET first == ReadByte(cpu.memory, cpu.pc)
        prefixed == first.value = PrefixByte
        second_at == CheckedAdd(cpu.pc, 1, checks)
        second == ReadByte(cpu.memory, second_at.value)
    IN  IF ~first.ok THEN Fetched(cpu, PanicBounds, {cpu.pc}, 0, FALSE)
        ELSE IF ~prefixed THEN Fetched(cpu, Ok, {cpu.pc}, first.value, FALSE)
        ELSE IF ~second_at.ok THEN Fetched(cpu, PanicOverflow, {cpu.pc}, 0, TRUE)
        ELSE IF ~second.ok
             THEN Fetched(cpu, PanicBounds, {cpu.pc, second_at.value}, 0, TRUE)
        ELSE Fetched(cpu, Ok, {cpu.pc, second_at.value}, second.value, TRUE)

\* CPU::step: fetch, decode, execute, commit.
Step(cpu, checks) ==
    LET fetched == Fetch(cpu, checks)
        decoded == FromByte(fetched.byte, fetched.prefixed)
        executed == Execute(fetched.cpu, decoded, checks)
    IN  IF fetched.outcome # Ok
        THEN StepResult(fetched.cpu, fetched.outcome, fetched.reads, fetched.byte,
                        fetched.prefixed, FALSE, <<>>)
        ELSE IF decoded = None
             THEN StepResult(fetched.cpu, PanicUnknown, fetched.reads, fetched.byte,
                             fetched.prefixed, FALSE,
                             Description(fetched.byte, fetched.prefixed))
        ELSE IF executed.outcome # Ok
             THEN StepResult(executed.cpu, executed.outcome,
                             fetched.reads \cup executed.reads, fetched.byte,
                             fetched.prefixed, TRUE, <<>>)
        ELSE StepResult([executed.cpu EXCEPT !.pc = executed.value], Ok,
                        fetched.reads \cup executed.reads, fetched.byte,
                        fetched.prefixed, TRUE, <<>>)

\* ------------------------------------------------------------- the host
\* The host (a loader, or a test) writes the public fields of a new CPU
\* before it calls execute or step.  These are the values it writes.

\* Values of A and of C: their sums carry, half-carry, both, neither, and
\* come to zero with and without a carry.
AValues == {\H00, \H01, \H0F, \HFF}
CValues == {\H00, \H01, \H02, \HF0}

\* Values of H and of L: HL is the first address, the last address of the
\* memory array, the address after it (0xFFFF), and addresses in between.
HValues == {\H00, \H10, \HFF}
LValues == {\H00, \HFE, \HFF}

\* Program counters: two ordinary ones, and the last four of the 16-bit range.
PcValues == {\H0000, \H0100, \HFFFC, \HFFFD, \HFFFE, \HFFFF}

\* The bytes at pc, pc + 1 and pc + 2: an unknown opcode, a prefixed one, a
\* prefix byte that is an operand, and a jump's operand bytes.
ProgramBytes ==
    {<<\H00, \H00, \H00>>, <<\HCB, \H00, \H7C>>, <<\HCB, \H7C, \HCB>>,
     <<\HC3, \H34, \H12>>, <<\H3E, \HCB, \HAB>>, <<\HFF, \HAA, \HBB>>}

\* memory[address] = value by the host, which writes inside the array only.
Poke(mem, address, value) ==
    IF InBounds(address) THEN SetCell(mem, address, value) ELSE mem

\* A memory with `bytes` at p, p + 1, p + 2 (modulo 65536) and `data` at `at`.
Image(p, bytes, at, data) ==
    Poke(Poke(Poke(Poke(ZeroMemory, at, data),
                   WrapU16(p + 2), bytes[3]), WrapU16(p + 1), bytes[2]), p, bytes[1])

\* Arithmetic set-ups: A, C and the flags vary.
AddSetups ==
    {Cpu(Registers(a, \H42, c, \H9C, \HEF, f, \H12, \H34), p,
         Image(p, <<\H81, \H00, \H00>>, \H1234, \H77)) :
        a \in AValues, c \in CValues, p \in {\H0100, \HFFFF},
        f \in {FlagsRegister(FALSE, FALSE, FALSE, FALSE),
               FlagsRegister(TRUE, TRUE, TRUE, TRUE)}}

\* Jump and step set-ups: the program counter, the bytes it points at and
\* the flags vary.
JumpSetups ==
    {Cpu(Registers(\H11, \H42, \H33, \H9C, \HEF, f, \H12, \H34), p,
         Image(p, bytes, \H1234, \H77)) :
        p \in PcValues, bytes \in ProgramBytes,
        f \in {FlagsRegister(z, z, c, c) : z \in BOOLEAN, c \in BOOLEAN}}

\* Load set-ups: HL, the byte at HL and the program counter vary.
LoadSetups ==
    {Cpu(Registers(\H11, \H42, \H33, \H9C, \HEF, f, h, l), p,
         Image(p, <<\H3E, \H5A, \HA5>>, BitOr(Shl16(h, 8), l), data)) :
        h \in HValues, l \in LValues, data \in {\H00, \HCD},
        p \in {\H0300, \HFFFE, \HFFFF},
        f \in {FlagsRegister(FALSE, TRUE, FALSE, TRUE)}}

Setups == AddSetups \cup JumpSetups \cup LoadSetups

\* ------------------------------------------------------------ the machine

CurrentCpu == Cpu(registers, pc, memory)

NoCall ==
    [op |-> "none", instruction |-> None, outcome |-> Ok, next_pc |-> 0,
     reads |-> {}, byte |-> 0, prefixed |-> FALSE, decoded |-> FALSE,
     description |-> <<>>, pre |-> DefaultCpu]

\* CPU::default(), in a build with or without overflow checks.
Init ==
    /\ registers = DefaultCpu.registers
    /\ pc = DefaultCpu.pc
    /\ memory = DefaultCpu.memory
    /\ overflow_checks \in BOOLEAN
    /\ phase = "new"
    /\ ops = 0
    /\ last = NoCall

\* The host writes the CPU's public fields.
Load ==
    /\ phase = "new"
    /\ \E setup \in Setups :
          /\ registers' = setup.registers
          /\ pc' = setup.pc
          /\ memory' = setup.memory
    /\ phase' = "loaded"
    /\ UNCHANGED <<overflow_checks, ops, last>>

Callable == phase \in {"new", "loaded", "returned"} /\ ops < MaxOps

\* The CPU after a call, and the call's record.
Called(op, instruction, result, byte, prefixed, decoded, description) ==
    /\ registers' = result.cpu.registers
    /\ pc' = result.cpu.pc
    /\ memory' = result.cpu.memory
    /\ phase' = IF result.outcome = Ok THEN "returned" ELSE "panicked"
    /\ ops' = ops + 1
    /\ last' = [op |-> op, instruction |-> instruction, outcome |-> result.outcome,
                next_pc |-> result.value, reads |-> result.reads, byte |-> byte,
                prefixed |-> prefixed, decoded |-> decoded,
                description |-> description, pre |-> CurrentCpu]
    /\ UNCHANGED overflow_checks

\* A call of cpu.execute(instruction).
CallExecute ==
    /\ Callable
    /\ \E instruction \in Instruction :
          Called("execute", instruction,
                 Execute(CurrentCpu, instruction, overflow_checks),
                 0, FALSE, FALSE, <<>>)

\* A call of cpu.step().
CallStep ==
    /\ Callable
    /\ LET result == Step(CurrentCpu, overflow_checks)
       IN  Called("step", None, result, result.byte, result.prefixed,
                  result.decoded, result.description)

Next == Load \/ CallExecute \/ CallStep

Spec == Init /\ [][Next]_vars

\* ------------------------------------------------ a store and a load back
\* Two calls of execute in a row: LD (HL),r and then LD r2,(HL).

\* The registers that are a source and a target of LD.
LoadRegisterOperands == (LoadByteTarget \cap LoadByteSource) \ {"HLI"}

\* A call of cpu.execute(LD(Byte(HLI, r))).
CallStore ==
    /\ phase = "loaded"
    /\ ops < MaxOps
    /\ \E r \in LoadRegisterOperands :
          Called("execute", LD("HLI", r),
                 Execute(CurrentCpu, LD("HLI", r), overflow_checks),
                 0, FALSE, FALSE, <<>>)

\* A call of cpu.execute(LD(Byte(r2, HLI))) right after a store that
\* returned; its record keeps the record of the store.
CallLoadBack ==
    /\ phase = "returned"
    /\ ops <= MaxOps
    /\ last.op = "execute"
    /\ last.instruction.kind = "LD"
    /\ last.instruction.target = "HLI"
    /\ "previous" \notin DOMAIN last
    /\ \E r2 \in LoadRegisterOperands :
          LET result == Execute(CurrentCpu, LD(r2, "HLI"), overflow_checks)
          IN  /\ registers' = result.cpu.registers
              /\ pc' = result.cpu.pc
              /\ memory' = result.cpu.memory
              /\ phase' = IF result.outcome = Ok THEN "returned" ELSE "panicked"
              /\ ops' = ops + 1
              /\ last' = [previous |-> last] @@
                         [op |-> "execute", instruction |-> LD(r2, "HLI"),
                          outcome |-> result.outcome, next_pc |-> result.value,
                          reads |-> result.reads, byte |-> 0, prefixed |-> FALSE,
                          decoded |-> FALSE, description |-> <<>>,
                          pre |-> CurrentCpu]
              /\ UNCHANGED overflow_checks

StoreLoadNext == Load \/ CallStore \/ CallLoadBack

StoreLoadSpec == Init /\ [][StoreLoadNext]_vars

\* ------------------------------------------------ the register file alone
\* The flags conversions and the BC pair accessors of src/src/main.rs, called
\* on the register file of a CPU the host has written.

AllFlags ==
    {FlagsRegister(z, n, h, c) :
        z \in BOOLEAN, n \in BOOLEAN, h \in BOOLEAN, c \in BOOLEAN}

\* Register files the host writes: every flag combination over registers
\* that all differ.
RegisterSetups ==
    {Registers(\H11, \H42, \H33, \H9C, \HEF, f, \H12, \H34) : f \in AllFlags}

\* Arguments of set_bc: high and low bytes that are zero, full, those of the
\* tests (0x1A3C) and those B and C already hold.
PairValues ==
    {high * 256 + low : high \in {\H00, \H1A, \H42, \HFF},
                        low \in {\H00, \H33, \H3C, \HFF}}

\* Arguments of FlagsRegister::from: every byte.
ByteValues == 0 .. 255

\* The host writes the public fields of the register file.
LoadRegisters ==
    /\ phase = "new"
    /\ registers' \in RegisterSetups
    /\ phase' = "loaded"
    /\ UNCHANGED <<pc, memory, overflow_checks, ops, last>>

\* The record of a call on the register file: its argument and what it
\* returned.
RegisterCall(op, argument, returned) ==
    [op |-> op, argument |-> argument, returned |-> returned, pre |-> CurrentCpu]
        @@ NoCall

\* The state after a call on the register file that leaves `regs`.
RegisterCalled(op, argument, returned, regs) ==
    /\ registers' = regs
    /\ phase' = "returned"
    /\ ops' = ops + 1
    /\ last' = RegisterCall(op, argument, returned)
    /\ UNCHANGED <<pc, memory, overflow_checks>>

\* u8::from(registers.f).
CallU8FromFlags ==
    /\ Callable
    /\ RegisterCalled("u8_from_flags", registers.f, U8FromFlags(registers.f), registers)

\* FlagsRegister::from(byte).
CallFlagsFromU8 ==
    /\ Callable
    /\ \E byte \in ByteValues :
          RegisterCalled("flags_from_u8", byte, FlagsFromU8(byte), registers)

\* registers.get_bc().
CallGetBc ==
    /\ Callable
    /\ RegisterCalled("get_bc", 0, GetBc(registers), registers)

\* registers.set_bc(value).
CallSetBc ==
    /\ Callable
    /\ \E value \in PairValues :
          RegisterCalled("set_bc", value, 0, SetBc(registers, value))

RegisterNext ==
    LoadRegisters \/ CallU8FromFlags \/ CallFlagsFromU8 \/ CallGetBc \/ CallSetBc

RegisterSpec == Init /\ [][RegisterNext]_vars

\* ---------------------------------------------------------------- claims

\* The last call was execute, of an instruction of this family.
Executed(kind) == last.op = "execute" /\ last.instruction.kind = kind

\* C1: executing ADD with target C sets A to (A + C) mod 256, sets zero iff
\* that result is 0, clears subtract, sets carry iff A + C > 255, sets
\* half-carry iff (A & 0xF) + (C & 0xF) > 0xF, all from the values of A and
\* C before the instruction, and returns (PC + 1) mod 65536.
AddCSetsSumAndFlags ==
    (last.op = "execute" /\ last.instruction = ADD("C")) =>
        LET a == last.pre.registers.a
            c == last.pre.registers.c
        IN  /\ last.outcome = Ok
            /\ registers.a = (a + c) % 256
            /\ registers.f.zero = ((a + c) % 256 = 0)
            /\ registers.f.subtract = FALSE
            /\ registers.f.carry = (a + c > 255)
            /\ registers.f.half_carry = ((a % 16) + (c % 16) > 15)
            /\ last.next_pc = (last.pre.pc + 1) % 65536

\* C1's case: ADD C of 0xFF + 0x01 at PC 0xFFFF with the subtract flag set
\* before: the sum wraps to 0 with carry and half-carry, and so does the PC.
AddCWrapsToZero ==
    /\ last.op = "execute" /\ last.instruction = ADD("C")
    /\ last.pre.registers.a = 255 /\ last.pre.registers.c = 1
    /\ last.pre.registers.f.subtract
    /\ last.pre.pc = 65535
    /\ registers.a = 0 /\ registers.f.zero /\ registers.f.carry
    /\ registers.f.half_carry /\ ~registers.f.subtract
    /\ last.next_pc = 0

\* Whether a JP with this test is taken, by the claim's table.
Taken(flags, test) ==
    \/ test = "Always"
    \/ test = "Zero" /\ flags.zero
    \/ test = "NotZero" /\ ~flags.zero
    \/ test = "Carry" /\ flags.carry
    \/ test = "NotCarry" /\ ~flags.carry

\* C2: a JP whose condition holds against the zero/carry flags returns
\* (mem[PC+2] << 8) | mem[PC+1]; one whose condition does not hold returns
\* (PC + 3) mod 65536.  Always is taken in every flag state, Zero iff zero
\* is set, NotZero iff it is clear, Carry iff carry is set, NotCarry iff it
\* is clear.  A taken jump returns whenever both operand addresses are in
\* the memory array.
JumpTakenOrSkipped ==
    Executed("JP") =>
        LET pre == last.pre
            taken == Taken(pre.registers.f, last.instruction.test)
            low == Cell(pre.memory, (pre.pc + 1) % 65536)
            high == Cell(pre.memory, (pre.pc + 2) % 65536)
        IN  /\ ~taken => last.outcome = Ok /\ last.next_pc = (pre.pc + 3) % 65536
            /\ taken /\ last.outcome = Ok => last.next_pc = high * 256 + low
            /\ taken /\ pre.pc + 2 < MemSize => last.outcome = Ok

\* C2's case: JP Carry taken at PC 0x0100 over the operand bytes 0x34, 0x12.
JumpCarryTaken ==
    /\ Executed("JP") /\ last.instruction.test = "Carry"
    /\ last.pre.registers.f.carry /\ ~last.pre.registers.f.zero
    /\ last.pre.pc = 256
    /\ Cell(last.pre.memory, 257) = 52 /\ Cell(last.pre.memory, 258) = 18
    /\ last.outcome = Ok /\ last.next_pc = 4660

\* The memories the host loads.
LoadedMemories == {setup.memory : setup \in Setups}

\* C3: an untaken jump never reads memory: it passes no address to
\* read_byte, and with any other memory contents under the same PC and
\* flags it returns the same next PC, (PC + 3) mod 65536, for every PC.
UntakenJumpIgnoresMemory ==
    (Executed("JP") /\ ~Taken(last.pre.registers.f, last.instruction.test)) =>
        /\ last.reads = {}
        /\ last.outcome = Ok
        /\ last.next_pc = (last.pre.pc + 3) % 65536
        /\ \A other \in LoadedMemories :
              LET again == Execute([last.pre EXCEPT !.memory = other],
                                   last.instruction, overflow_checks)
              IN  again.outcome = Ok /\ again.value = last.next_pc

\* C3's case: JP NotZero untaken at PC 0xFFFE, whose operand addresses are
\* 0xFFFF (outside the array) and 0x0000.
UntakenJumpAtTopOfMemory ==
    /\ Executed("JP") /\ last.instruction.test = "NotZero"
    /\ last.pre.registers.f.zero
    /\ last.pre.pc = 65534
    /\ last.pre.memory # ZeroMemory
    /\ last.outcome = Ok /\ last.next_pc = 1

\* The byte registers an LD can name.
ByteRegister == {"A", "B", "C", "D", "E", "H", "L"}

\* C4: a register-to-register LD sets the target register to the value the
\* source register held before; LD r,(HL) sets r to the byte at address HL;
\* LD (HL),r stores r at address HL (HL an address of the memory array); in
\* all three cases execute returns (PC + 1) mod 65536.
LoadCopiesByte ==
    (Executed("LD") /\ last.instruction.source # "D8") =>
        LET pre == last.pre
            target == last.instruction.target
            source == last.instruction.source
            hl == pre.registers.h * 256 + pre.registers.l
            value == IF source = "HLI" THEN Cell(pre.memory, hl)
                     ELSE pre.registers[Field(source)]
            uses_hl == target = "HLI" \/ source = "HLI"
        IN  (uses_hl => hl < MemSize) =>
                /\ last.outcome = Ok
                /\ last.next_pc = (pre.pc + 1) % 65536
                /\ target \in ByteRegister => registers[Field(target)] = value
                /\ target = "HLI" => Cell(memory, hl) = value

\* C4's case: LD D,(HL) with HL = 0x10FE and 0xCD stored there loads 0xCD
\* into D and returns PC + 1.
LoadFromMemory ==
    /\ Executed("LD") /\ last.instruction = LD("D", "HLI")
    /\ last.pre.registers.h = 16 /\ last.pre.registers.l = 254
    /\ Cell(last.pre.memory, 4350) = 205
    /\ last.pre.registers.d # 205
    /\ registers.d = 205
    /\ last.next_pc = (last.pre.pc + 1) % 65536

\* C5: an LD whose source is the immediate byte, executed with the program
\* counter at the opcode address PC, loads the byte stored at PC + 1 into
\* the target and returns PC + 2 (mod 65536).
LoadImmediateReadsNextByte ==
    (Executed("LD") /\ last.instruction.source = "D8" /\ last.outcome = Ok) =>
        LET pre == last.pre
            target == last.instruction.target
            hl == pre.registers.h * 256 + pre.registers.l
            immediate == Cell(pre.memory, (pre.pc + 1) % 65536)
        IN  /\ last.next_pc = (pre.pc + 2) % 65536
            /\ target \in ByteRegister => registers[Field(target)] = immediate
            /\ target = "HLI" => Cell(memory, hl) = immediate

\* The fetch of a step from this CPU reads inside the memory array, so the
\* step gets as far as the decoder.
FetchCompletes(cpu) ==
    /\ cpu.pc < MemSize
    /\ Cell(cpu.memory, cpu.pc) = 203 => cpu.pc + 1 < MemSize

\* C6: when step meets an opcode the decoder does not recognize, the step
\* ends in the fatal error and commits nothing: the program counter, every
\* register, the flags and every memory byte are as before the step.
UnknownOpcodeCommitsNothing ==
    (last.op = "step" /\ FetchCompletes(last.pre) /\ ~last.decoded) =>
        /\ last.outcome = PanicUnknown
        /\ phase = "panicked"
        /\ pc = last.pre.pc
        /\ registers = last.pre.registers
        /\ memory = last.pre.memory

\* C6's case: a step at PC 0x0100 over the prefix byte and 0x7C, with
\* registers and flags that are not zero, ends in the fatal error.
PrefixedUnknownOpcodeMet ==
    /\ last.op = "step" /\ last.outcome = PanicUnknown
    /\ last.pre.pc = 256
    /\ Cell(last.pre.memory, 256) = 203 /\ Cell(last.pre.memory, 257) = 124
    /\ last.pre.registers.a = 17 /\ last.pre.registers.f.zero
    /\ pc = 256

\* The value of an upper-case hexadecimal digit; 16 for any other character.
HexDigitValue(ch) ==
    CASE ch = "0" -> 0 [] ch = "1" -> 1 [] ch = "2" -> 2 [] ch = "3" -> 3
      [] ch = "4" -> 4 [] ch = "5" -> 5 [] ch = "6" -> 6 [] ch = "7" -> 7
      [] ch = "8" -> 8 [] ch = "9" -> 9 [] ch = "A" -> 10 [] ch = "B" -> 11
      [] ch = "C" -> 12 [] ch = "D" -> 13 [] ch = "E" -> 14 [] ch = "F" -> 15
      [] OTHER -> 16

\* `text` is `lead` followed by exactly two upper-case hexadecimal digits
\* that spell `byte`.
SpellsByte(text, lead, byte) ==
    /\ Len(text) = Len(lead) + 2
    /\ SubSeq(text, 1, Len(lead)) = lead
    /\ HexDigitValue(text[Len(lead) + 1]) < 16
    /\ HexDigitValue(text[Len(lead) + 2]) < 16
    /\ HexDigitValue(text[Len(lead) + 1]) * 16 + HexDigitValue(text[Len(lead) + 2]) = byte

\* C7: the byte and prefix status a failing step reports are what it
\* fetched: if mem[PC] is not 0xCB, mem[PC] with prefixed = false and the
\* text "0x" + two upper-case hex digits; if mem[PC] is 0xCB, the byte at
\* PC + 1 with prefixed = true and the text "0xCB" + two upper-case hex
\* digits, and it is that second byte the decoder was asked about.
FailingStepReportsFetchedByte ==
    (last.op = "step" /\ last.outcome = PanicUnknown) =>
        LET first == Cell(last.pre.memory, last.pre.pc)
            second == Cell(last.pre.memory, (last.pre.pc + 1) % 65536)
        IN  IF first # 203
            THEN /\ last.byte = first
                 /\ ~last.prefixed
                 /\ SpellsByte(last.description, <<"0", "x">>, first)
            ELSE /\ last.byte = second
                 /\ last.prefixed
                 /\ SpellsByte(last.description, <<"0", "x", "C", "B">>, second)

\* C7's case: a step over 0xCB, 0x00 reports 0xCB00, the second byte
\* padded to two digits.
PrefixedZeroReported ==
    /\ last.op = "step" /\ last.outcome = PanicUnknown
    /\ Cell(last.pre.memory, last.pre.pc) = 203
    /\ Cell(last.pre.memory, last.pre.pc + 1) = 0
    /\ last.prefixed /\ last.byte = 0
    /\ last.description = <<"0", "x", "C", "B", "0", "0">>

\* C8: execute is total: for every instruction of the closed variant and
\* every CPU state it completes and returns a next-PC value.
ExecuteIsTotal == last.op = "execute" => last.outcome = Ok

\* C9: every address derived from the program counter is computed modulo
\* 65536 and never traps on overflow: a taken jump's operand addresses and
\* the address of step's prefixed fetch are (PC + 1) mod 65536 and
\* (PC + 2) mod 65536, so a taken jump at PC 0xFFFF reads its operands at
\* 0x0000 and 0x0001.
PcAddressesWrap ==
    /\ (Executed("JP") /\ Taken(last.pre.registers.f, last.instruction.test)) =>
          /\ last.outcome # PanicOverflow
          /\ last.reads \subseteq {(last.pre.pc + 1) % 65536, (last.pre.pc + 2) % 65536}
          /\ last.pre.pc = 65535 => last.reads = {0, 1}
    /\ last.op = "step" =>
          /\ last.outcome # PanicOverflow
          /\ last.reads \subseteq {last.pre.pc, (last.pre.pc + 1) % 65536}

\* C10: for each of the seven ADD targets r, executing ADD sets A to
\* (A + r) mod 256 and returns (PC + 1) mod 65536; no target returns the
\* program counter unadvanced.
AddEveryTarget ==
    Executed("ADD") =>
        LET pre == last.pre
            r == pre.registers[Field(last.instruction.target)]
        IN  /\ registers.a = (pre.registers.a + r) % 256
            /\ last.next_pc = (pre.pc + 1) % 65536

\* The bit of `byte` at `position`, by division.
Bit(byte, position) == (byte \div (2 ^ position)) % 2 = 1

\* C11: flags encode/decode round trip: for all 16 combinations f of (zero,
\* subtract, half-carry, carry), from_byte(to_byte(f)) = f, where to_byte
\* puts zero in bit 7, subtract in bit 6, half-carry in bit 5, carry in bit
\* 4 and leaves bits 3..0 zero.
FlagsRoundTrip ==
    last.op = "u8_from_flags" =>
        LET f == last.argument
            byte == last.returned
        IN  /\ FlagsFromU8(byte) = f
            /\ byte = (IF f.zero THEN 128 ELSE 0) + (IF f.subtract THEN 64 ELSE 0)
                        + (IF f.half_carry THEN 32 ELSE 0) + (IF f.carry THEN 16 ELSE 0)
            /\ byte % 16 = 0

\* C11's case: zero and half-carry set, subtract and carry clear, encoded
\* as 0b10100000.
FlagsEncodedAsA0 ==
    /\ last.op = "u8_from_flags"
    /\ last.argument = FlagsRegister(TRUE, FALSE, TRUE, FALSE)
    /\ last.returned = 160

\* C12: for every byte b in 0..255, to_byte(from_byte(b)) = b & 0xF0:
\* decoding then encoding keeps bits 7..4 and zeroes the low nibble.
DecodeEncodeKeepsHighNibble ==
    last.op = "flags_from_u8" =>
        LET b == last.argument
            f == last.returned
        IN  /\ U8FromFlags(f) = b - (b % 16)
            /\ f.zero = Bit(b, 7) /\ f.subtract = Bit(b, 6)
            /\ f.half_carry = Bit(b, 5) /\ f.carry = Bit(b, 4)

\* C12's case: 0xBF decodes to zero, half-carry and carry, which encode as
\* 0xB0: the low nibble is gone.
LowNibbleDiscarded ==
    /\ last.op = "flags_from_u8"
    /\ last.argument = 191
    /\ last.returned = FlagsRegister(TRUE, FALSE, TRUE, TRUE)
    /\ U8FromFlags(last.returned) = 176

\* C13: after set_bc(v), get_bc() returns v, with B = v >> 8 and
\* C = v & 0xFF; set_bc changes no register other than B and C and does not
\* change the flags; get_bc() always equals (B << 8) | C.
PairAccessorsConsistent ==
    /\ last.op = "set_bc" =>
          LET v == last.argument
              before == last.pre.registers
          IN  /\ GetBc(registers) = v
              /\ registers.b = v \div 256
              /\ registers.c = v % 256
              /\ \A r \in {"a", "d", "e", "h", "l", "f"} : registers[r] = before[r]
    /\ last.op = "get_bc" =>
          /\ last.returned = registers.b * 256 + registers.c
          /\ registers = last.pre.registers

\* C13's case: set_bc(0x1A3C) over B = 0x42, C = 0x33 and set flags leaves
\* B = 0x1A and C = 0x3C.
BcSetTo1A3C ==
    /\ last.op = "set_bc" /\ last.argument = 6716
    /\ last.pre.registers.b = 66 /\ last.pre.registers.c = 51
    /\ last.pre.registers.f = FlagsRegister(TRUE, TRUE, TRUE, TRUE)
    /\ registers.b = 26 /\ registers.c = 60

\* C14: a newly constructed CPU is zero-initialized: A, B, C, D, E, H, L are
\* 0, the four flags are false, PC is 0 and every byte of memory is 0.
NewCpuIsZeroed ==
    phase = "new" =>
        /\ \A r \in ByteRegister : registers[Field(r)] = 0
        /\ ~registers.f.zero /\ ~registers.f.subtract
        /\ ~registers.f.half_carry /\ ~registers.f.carry
        /\ pc = 0
        /\ \A address \in 0 .. MemSize - 1 : Cell(memory, address) = 0

\* C14's case: the CPU as CPU::default() made it, before the host has
\* written a field or made a call.
NewCpuConstructed == phase = "new" /\ ops = 0 /\ last.op = "none" /\ pc = 0

\* The cells of two memories that differ.
ChangedCells(before, after) ==
    {address \in DOMAIN before \cup DOMAIN after :
        Cell(before, address) # Cell(after, address)}

\* C15: executing any LD never changes the flags and changes nothing but
\* its target: a load into a register leaves the other six general
\* registers and all of memory unchanged; a load into (HL) changes only the
\* memory byte at address HL and leaves all eight registers and every other
\* memory byte unchanged.
LoadChangesOnlyTarget ==
    Executed("LD") =>
        LET pre == last.pre
            target == last.instruction.target
            hl == pre.registers.h * 256 + pre.registers.l
        IN  /\ registers.f = pre.registers.f
            /\ target \in ByteRegister =>
                  /\ \A r \in ByteRegister \ {target} :
                        registers[Field(r)] = pre.registers[Field(r)]
                  /\ ChangedCells(pre.memory, memory) = {}
            /\ target = "HLI" =>
                  /\ registers = pre.registers
                  /\ ChangedCells(pre.memory, memory) \subseteq {hl}

\* C15's case: LD (HL),E with HL = 0x10FE and flags set writes 0xEF over the
\* 0xCD stored there.
StoreOverwritesCell ==
    /\ Executed("LD") /\ last.instruction = LD("HLI", "E")
    /\ last.pre.registers.h = 16 /\ last.pre.registers.l = 254
    /\ last.pre.registers.f.subtract
    /\ Cell(last.pre.memory, 4350) = 205
    /\ Cell(memory, 4350) = 239

\* C16: executing ADD with target C changes only register A and the four
\* flags: B, C, D, E, H, L, the stored program counter and every memory
\* byte keep their values.
AddCChangesOnlyAAndFlags ==
    (last.op = "execute" /\ last.instruction = ADD("C")) =>
        /\ \A r \in ByteRegister \ {"A"} :
              registers[Field(r)] = last.pre.registers[Field(r)]
        /\ pc = last.pre.pc
        /\ ChangedCells(last.pre.memory, memory) = {}

\* C16's case: ADD C of 0x0F + 0x01 at PC 0x0100 changes A to 0x10 and sets
\* half-carry; the stored PC is still 0x0100.
AddCChangedA ==
    /\ last.op = "execute" /\ last.instruction = ADD("C")
    /\ last.pre.registers.a = 15 /\ last.pre.registers.c = 1
    /\ ~last.pre.registers.f.half_carry
    /\ last.pre.pc = 256
    /\ registers.a = 16 /\ registers.f.half_carry
    /\ last.next_pc = 257 /\ pc = 256

\* C17: executing JP, taken or not, changes no register, no flag, no memory
\* byte and not the stored program counter; its only effect is the next PC
\* it returns.
JumpChangesNothing ==
    Executed("JP") =>
        /\ registers = last.pre.registers
        /\ pc = last.pre.pc
        /\ ChangedCells(last.pre.memory, memory) = {}

\* C17's case: JP Always at PC 0x0100 returns 0x1234 and the stored PC is
\* still 0x0100.
JumpReturnedElsewhere ==
    /\ Executed("JP") /\ last.instruction.test = "Always"
    /\ last.pre.pc = 256
    /\ last.outcome = Ok /\ last.next_pc = 4660
    /\ pc = 256

\* C18: store-then-load round trip through memory: for every HL in
\* 0x0000..0xFFFE and every source register r, executing LD (HL),r and then
\* LD r2,(HL) with nothing in between leaves r2 equal to the value r held
\* before the store, for every target register r2.
StoreThenLoadRoundTrip ==
    (last.op = "execute" /\ "previous" \in DOMAIN last) =>
        LET store == last.previous
            hl == store.pre.registers.h * 256 + store.pre.registers.l
        IN  hl < MemSize =>
                /\ store.outcome = Ok
                /\ last.outcome = Ok
                /\ registers[Field(last.instruction.target)]
                      = store.pre.registers[Field(store.instruction.source)]

\* C18's case: LD (HL),E at HL = 0x10FE, where 0xCD was stored, and then
\* LD B,(HL): B, 0x42 before, is the 0xEF that E held.
StoredByteLoadedBack ==
    /\ last.op = "execute" /\ "previous" \in DOMAIN last
    /\ last.previous.instruction = LD("HLI", "E")
    /\ last.instruction = LD("B", "HLI")
    /\ last.previous.pre.registers.h = 16 /\ last.previous.pre.registers.l = 254
    /\ Cell(last.previous.pre.memory, 4350) = 205
    /\ last.pre.registers.b = 66
    /\ registers.b = 239

\* C19: the decoder recognizes no opcode: from_byte returns None for all
\* 256 unprefixed and all 256 prefixed bytes, so from any CPU state with PC
\* inside the memory array no call of step reaches execute or the commit of
\* the next PC: program counter, registers, flags and memory are as before.
DecoderRecognizesNothing ==
    /\ \A byte \in 0 .. 255 : \A prefixed \in BOOLEAN : FromByte(byte, prefixed) = None
    /\ (last.op = "step" /\ last.pre.pc < MemSize) =>
          /\ ~last.decoded
          /\ last.outcome # Ok
          /\ phase = "panicked"
          /\ CurrentCpu = last.pre

\* C19's case: a step at PC 0x0100 over 0xC3 0x34 0x12, the bytes of
\* JP 0x1234 on the hardware, ends with PC still 0x0100.
StepOverJumpBytes ==
    /\ last.op = "step"
    /\ last.pre.pc = 256
    /\ Cell(last.pre.memory, 256) = 195
    /\ Cell(last.pre.memory, 257) = 52 /\ Cell(last.pre.memory, 258) = 18
    /\ last.byte = 195 /\ ~last.decoded
    /\ pc = 256

====
